---- MODULE Spec2Model ----
(***************************************************************************)
(* Render-data batch storage of the renderer (src/src/renderer/batch.rs):  *)
(* the key -> index map, the batch list, push, push_triangles, sort and    *)
(* from_graph with its LOD filter.                                         *)
(***************************************************************************)
EXTENDS Integers, Sequences, FiniteSets, TLC

----------------------------------------------------------------------------
(* 64-bit words.  TLC integers are 32 bits wide, so a u64 is kept as four  *)
(* 16-bit limbs, least significant first.                                  *)

\* The value of e handed to Op, e being evaluated once.
Eval(Op(_), e) == CHOOSE r \in { Op(v) : v \in {e} } : TRUE

\* The u64 holding a small natural number (n < 2^31).
U64(n) == <<n % 65536, n \div 65536, 0, 0>>

\* Bit p (a power of two) of the exclusive or of two limbs, in place.
XorBit(a, b, p) == (((a \div p) + (b \div p)) % 2) * p

\* Exclusive or of two limbs.
XorLimb(a, b) ==
    IF b = 0 THEN a
    ELSE IF a = 0 THEN b
    ELSE XorBit(a, b, 1) + XorBit(a, b, 2) + XorBit(a, b, 4)
         + XorBit(a, b, 8) + XorBit(a, b, 16) + XorBit(a, b, 32)
         + XorBit(a, b, 64) + XorBit(a, b, 128) + XorBit(a, b, 256)
         + XorBit(a, b, 512) + XorBit(a, b, 1024) + XorBit(a, b, 2048)
         + XorBit(a, b, 4096) + XorBit(a, b, 8192) + XorBit(a, b, 16384)
         + XorBit(a, b, 32768)

\* u64::bitxor
BitXor(x, y) ==
    <<XorLimb(x[1], y[1]), XorLimb(x[2], y[2]), XorLimb(x[3], y[3]),
      XorLimb(x[4], y[4])>>

\* Rotation to the left by k whole limbs.
RotateLimbs(x, k) ==
    IF k = 0 THEN x
    ELSE IF k = 1 THEN <<x[4], x[1], x[2], x[3]>>
    ELSE IF k = 2 THEN <<x[3], x[4], x[1], x[2]>>
    ELSE <<x[2], x[3], x[4], x[1]>>

RECURSIVE Pow2(_)
Pow2(n) == IF n = 0 THEN 1 ELSE 2 * Pow2(n - 1)

\* Rotation to the left by fewer than 16 bits, p being two to their number:
\* limb i takes its own low bits, shifted up, and the high bits of the limb
\* below it, the lowest limb wrapping around to the highest.
RotateBits(x, p) ==
    <<(x[1] % (65536 \div p)) * p + (x[4] \div (65536 \div p)),
      (x[2] % (65536 \div p)) * p + (x[1] \div (65536 \div p)),
      (x[3] % (65536 \div p)) * p + (x[2] \div (65536 \div p)),
      (x[4] % (65536 \div p)) * p + (x[3] \div (65536 \div p))>>

\* u64::rotate_left
RotateLeft(x, n) ==
    LET Bits(y) == RotateBits(y, Pow2(n % 16))
    IN  Eval(Bits, RotateLimbs(x, n \div 16))

\* u64::wrapping_add
WrappingAdd(x, y) ==
    LET s1 == x[1] + y[1]
        s2 == x[2] + y[2] + s1 \div 65536
        s3 == x[3] + y[3] + s2 \div 65536
        s4 == x[4] + y[4] + s3 \div 65536
    IN  <<s1 % 65536, s2 % 65536, s3 % 65536, s4 % 65536>>

\* The product of two limbs is a * (b \div 256) * 256 + a * (b % 256); its
\* low 16 bits and its high 16 bits, with no intermediate above 2^31.
MulMid(a, b) == a * (b % 256) + ((a * (b \div 256)) % 256) * 256
MulLo(a, b) == MulMid(a, b) % 65536
MulHi(a, b) == (a * (b \div 256)) \div 256 + MulMid(a, b) \div 65536

\* The limbs of x * y mod 2^64 before the carries are taken out.
MulColumn(x, y, k) ==
    IF k = 1 THEN MulLo(x[1], y[1])
    ELSE IF k = 2 THEN
        MulHi(x[1], y[1]) + MulLo(x[1], y[2]) + MulLo(x[2], y[1])
    ELSE IF k = 3 THEN
        MulHi(x[1], y[2]) + MulHi(x[2], y[1])
            + MulLo(x[1], y[3]) + MulLo(x[2], y[2]) + MulLo(x[3], y[1])
    ELSE
        MulHi(x[1], y[3]) + MulHi(x[2], y[2]) + MulHi(x[3], y[1])
            + MulLo(x[1], y[4]) + MulLo(x[2], y[3]) + MulLo(x[3], y[2])
            + MulLo(x[4], y[1])

RECURSIVE MulCarry(_, _, _)
\* Carry into limb k of the product.
MulCarry(x, y, k) ==
    IF k = 1 THEN 0
    ELSE (MulColumn(x, y, k - 1) + MulCarry(x, y, k - 1)) \div 65536

\* Limb k of the product.
MulLimb(x, y, k) == (MulColumn(x, y, k) + MulCarry(x, y, k)) % 65536

\* u64::wrapping_mul
WrappingMul(x, y) ==
    <<MulLimb(x, y, 1), MulLimb(x, y, 2), MulLimb(x, y, 3), MulLimb(x, y, 4)>>

----------------------------------------------------------------------------
(* FxHasher on a 64-bit target: every write_* hashes one machine word.     *)

\* 0x517cc1b727220a95, least significant limb first.
SEED64 == <<2709, 10018, 49591, 20860>>

\* FxHasher::default(): the hash starts at zero.
FxDefault == U64(0)

\* (hash.rotate_left(5) ^ word)
RotateXor(hash, word) ==
    LET Xor(r) == BitXor(r, word) IN Eval(Xor, RotateLeft(hash, 5))

\* hash_word: hash = (hash.rotate_left(5) ^ word).wrapping_mul(SEED)
HashWord(hash, word) ==
    LET Mul(x) == WrappingMul(x, SEED64)
        Step(h) == Eval(Mul, RotateXor(h, word))
    IN  Eval(Step, hash)

\* A key that leaves the skinned flag out.
PushKey_NoSkinnedFlag(material, data, is_skinned, decal_layer_index, render_path) ==
    HashWord(HashWord(HashWord(HashWord(FxDefault,
        U64(material)),
        U64(data)),
        U64(decal_layer_index)),
        U64(render_path))

\* The five words push writes, in the order of batch.rs:332-336.
PushKey(material, data, is_skinned, decal_layer_index, render_path) ==
    HashWord(HashWord(HashWord(HashWord(HashWord(FxDefault,
        U64(material)),
        U64(data)),
        U64(IF is_skinned THEN 1 ELSE 0)),
        U64(decal_layer_index)),
        U64(render_path))

\* TypeId::of::<T>() hashes as one u64 fixed by the build for each vertex
\* type; two vertex types of the engine stand for T.
VertexTypes == {"StaticVertex", "SimpleVertex"}

TypeIdHash(vertex_type) ==
    IF vertex_type = "StaticVertex"
    THEN <<28733, 61449, 4685, 42697>>
    ELSE <<1422, 13286, 45406, 51996>>

\* The five words push_triangles writes, in the order of batch.rs:252-256.
TrianglesKey(material, vertex_type, is_skinned, decal_layer_index, render_path) ==
    HashWord(HashWord(HashWord(HashWord(HashWord(FxDefault,
        U64(material)),
        TypeIdHash(vertex_type)),
        U64(IF is_skinned THEN 1 ELSE 0)),
        U64(decal_layer_index)),
        U64(render_path))

----------------------------------------------------------------------------
(* Inputs.                                                                 *)

\* SharedMaterial::key() and SurfaceSharedData::key() are the addresses of
\* the shared allocations.
Materials == {4096, 4160}
Surfaces == {8192, 8256}

\* RenderPath as u32: Deferred = 0, Forward = 1.
RenderPaths == {0, 1}
DecalLayers == {0, 1}
SortIndices == {1, 2}

\* Number of bone matrices an instance carries.
BoneCounts == {0, 2}

\* The vertex layout of the shared surfaces handed to push.
SurfaceLayout(key) == IF key = 8192 THEN "StaticVertex" ELSE "SimpleVertex"

\* What push_triangles is given: a vertex count and local triangles.
Shapes ==
    { [nverts |-> 3, tris |-> << <<0, 1, 2>> >>],
      [nverts |-> 2, tris |-> << <<0, 1, 1>>, <<1, 0, 0>> >>] }

\* A drawable of a scene node: what the node hands to push ("surface") or
\* to push_triangles ("triangles") when it contributes.
PushDescs ==
    [kind : {"surface"}, material : Materials, data : Surfaces,
     vertex_type : {"none"}, bones : BoneCounts, is_skinned : {FALSE},
     decal : DecalLayers, path : RenderPaths, sort_index : SortIndices,
     shape : {[nverts |-> 0, tris |-> <<>>]}]

TriDescs ==
    [kind : {"triangles"}, material : Materials, data : {0},
     vertex_type : VertexTypes, bones : {0}, is_skinned : BOOLEAN,
     decal : DecalLayers, path : RenderPaths, sort_index : SortIndices,
     shape : Shapes]

NoDrawable ==
    [kind |-> "none", material |-> 0, data |-> 0, vertex_type |-> "none",
     bones |-> 0, is_skinned |-> FALSE, decal |-> 0, path |-> 0,
     sort_index |-> 0, shape |-> [nverts |-> 0, tris |-> <<>>]]

----------------------------------------------------------------------------
(* State.                                                                  *)

VARIABLES
    batch_map,   \* RenderDataBatchStorage::batch_map: key -> index into batches
    batches,     \* RenderDataBatchStorage::batches
    surfaces,    \* the shared surface data the batches point to, by key()
    graph,       \* the scene graph: pool slot (from 0) -> node
    observer,    \* ObserverInfo
    lod_filter,  \* from_graph's lod_filter, slot -> BOOLEAN
    pc,          \* "api": the storage is driven by its caller; otherwise
                 \* from_graph's position: "start", "collect", "done"
    cursor,      \* from_graph: the next slot of graph.pair_iter()
    asked,       \* slot -> number of times the node was asked to contribute
    last,        \* the operation that produced this state
    calls,       \* operations performed so far
    fatal,       \* a panic was raised: "Vertex types mismatch!" in
                 \* push_triangles, unreachable!() or unwrap() in a command
    ui,          \* UiSceneContext::ui: widget handle -> widget
    clipboard,   \* UiSceneContext::clipboard: the root widgets it holds
    selection,   \* UiSceneContext::selection
    command,     \* the command the editor's command stack drives
    history      \* the operations the stack applied to the command, each
                 \* with the selection that was current just before it

\* The state of the renderer (fatal apart, which both sides can raise) and
\* the state of the editor.
renderer_vars ==
    <<batch_map, batches, surfaces, graph, observer, lod_filter, pc, cursor,
      asked, last, calls>>

editor_vars == <<ui, clipboard, selection, command, history>>

vars ==
    <<batch_map, batches, surfaces, graph, observer, lod_filter, pc, cursor,
      asked, last, calls, fatal, ui, clipboard, selection, command, history>>

\* Selection::None (graph.rs:33), and Selection::Ui(UiSelection { widgets })
\* (graph.rs:206-208).
SelectionNone == [kind |-> "None", widgets |-> << >>]

SelectionUi(widgets) == [kind |-> "Ui", widgets |-> widgets]

\* No editor is attached to the renderer.
NoEditor ==
    /\ ui = << >>
    /\ clipboard = << >>
    /\ selection = SelectionNone
    /\ command = [kind |-> "none"]
    /\ history = << >>

\* Operations per run of the storage.
MaxCalls == 4

Slots == DOMAIN graph

\* Handle<Node>
Handle(index, generation) == [index |-> index, generation |-> generation]

\* The handle of the node in a slot.
HandleOf(slot) == Handle(slot, graph[slot].generation)

\* No operation yet.
NoCall ==
    [op |-> "none", node |-> 0, key |-> U64(0), hit |-> FALSE, index |-> 0]

----------------------------------------------------------------------------
(* PersistentIdentifier::new_combined, over DefaultHasher: SipHash-1-3     *)
(* with a zero key.  The state is <<v0, v1, v2, v3>>.                      *)

\* DefaultHasher::new(): the four constants of SipHash, the key being zero.
SipInit ==
    << <<25973, 28787, 28005, 29551>>, <<28525, 28260, 29281, 25711>>,
       <<29281, 28261, 26469, 27769>>, <<25971, 31092, 25698, 29797>> >>

\* One SipHash round, in four steps.
\* v0 += v1; v1 <<<= 13; v2 += v3; v3 <<<= 16
SipMixA(v) ==
    <<WrappingAdd(v[1], v[2]), RotateLeft(v[2], 13),
      WrappingAdd(v[3], v[4]), RotateLeft(v[4], 16)>>

\* v1 ^= v0; v0 <<<= 32; v3 ^= v2
SipMixB(v) ==
    <<RotateLeft(v[1], 32), BitXor(v[2], v[1]), v[3], BitXor(v[4], v[3])>>

\* v0 += v3; v3 <<<= 21; v2 += v1; v1 <<<= 17
SipMixC(v) ==
    <<WrappingAdd(v[1], v[4]), RotateLeft(v[2], 17),
      WrappingAdd(v[3], v[2]), RotateLeft(v[4], 21)>>

\* v3 ^= v0; v1 ^= v2; v2 <<<= 32
SipMixD(v) ==
    <<v[1], BitXor(v[2], v[3]), RotateLeft(v[3], 32), BitXor(v[4], v[1])>>

SipRound(v) == Eval(SipMixD, Eval(SipMixC, Eval(SipMixB, Eval(SipMixA, v))))

\* Sip13Rounds::c_rounds and d_rounds
CRounds(v) == SipRound(v)
DRounds(v) == SipRound(SipRound(SipRound(v)))

\* Eight bytes of input: v3 ^= m; c_rounds; v0 ^= m
SipWrite(v, m) ==
    LET In(s) == <<s[1], s[2], s[3], BitXor(s[4], m)>>
        Out(s) == <<BitXor(s[1], m), s[2], s[3], s[4]>>
    IN  Eval(Out, CRounds(Eval(In, v)))

\* finish() after `length` bytes were written, none of them left over: the
\* last word holds the length in its top byte.
SipFinish(v, length) ==
    LET b == <<0, 0, 0, (length % 256) * 256>>
        In(s) == <<s[1], s[2], s[3], BitXor(s[4], b)>>
        Out(s) == <<BitXor(s[1], b), s[2], BitXor(s[3], U64(255)), s[4]>>
        Halves(s) == <<BitXor(s[1], s[2]), BitXor(s[3], s[4])>>
        Fold(h) == BitXor(h[1], h[2])
    IN  Eval(Fold, Eval(Halves, DRounds(Eval(Out, CRounds(Eval(In, v))))))

\* Handle::hash writes the index and the generation, four bytes each; they
\* fill one word of the hasher's input.
HandleWord(handle) ==
    <<handle.index % 65536, handle.index \div 65536,
      handle.generation % 65536, handle.generation \div 65536>>

\* new_combined: the handle, the key of the surface data and the index are
\* written, 24 bytes in all.
NewCombined(surface_key, handle, index) ==
    SipFinish(SipWrite(SipWrite(SipWrite(SipInit,
        HandleWord(handle)),
        U64(surface_key)),
        U64(index)), 24)

----------------------------------------------------------------------------
(* push                                                                    *)

\* let is_skinned = !instance_data.bone_matrices.is_empty();
IsSkinned(instance_data) == instance_data.bone_matrices > 0

\* The length taken after the batch was pushed.
NewBatchIndex_AfterPush(bs) == Len(bs) + 1

\* self.batches.len(), the index a new batch is registered under.
NewBatchIndex(bs) == Len(bs)

\* A storage that forgets to register the batch it creates.
MapInsert_Forgotten(bm, key, index) == bm

\* self.batch_map.insert(key, index)
MapInsert(bm, key, index) ==
    (key :> index) @@ bm

\* A batch that is found takes the sort index of the call.
FoundBatches_TakesSortIndex(bs, hit, index, new_batch) ==
    IF hit THEN [bs EXCEPT ![index + 1].sort_index = new_batch.sort_index]
    ELSE Append(bs, new_batch)

\* let batch = if let Some(&batch_index) = self.batch_map.get(&key) { .. }
\* else { .. self.batches.push(..) .. }: the list in which the batch of the
\* call is, a found batch being left as it is.
FoundBatches(bs, hit, index, new_batch) ==
    IF hit THEN bs ELSE Append(bs, new_batch)

\* The batch push creates on a key miss.
PushNewBatch(data, material, render_path, decal_layer_index, sort_index, is_skinned) ==
    [data |-> data, sort_index |-> sort_index, instances |-> <<>>,
     material |-> material, is_skinned |-> is_skinned,
     render_path |-> render_path, decal_layer_index |-> decal_layer_index,
     time_to_live |-> "Default"]

\* The instance is not stored.
PushInstance_Dropped(batch, instance_data) == batch

\* batch.instances.push(instance_data)
PushInstance(batch, instance_data) ==
    [batch EXCEPT !.instances = Append(@, instance_data)]

\* The instance a node hands to push for its drawable.
InstanceOf(node, handle) ==
    [world_transform |-> "world", bone_matrices |-> node.drawable.bones,
     persistent_identifier |-> node.persistent_identifier,
     node_handle |-> handle]

\* RenderDataBatchStorage::push on the storage (bm, bs): the storage after
\* the call, with the key, whether it was found and the index used.
Push(bm, bs, data, material, render_path, decal_layer_index, sort_index, instance_data) ==
    LET is_skinned == IsSkinned(instance_data)
        Select(key) ==
            LET hit == key \in DOMAIN bm
                index == IF hit THEN bm[key] ELSE NewBatchIndex(bs)
                found == FoundBatches(bs, hit, index,
                             PushNewBatch(data, material, render_path,
                                 decal_layer_index, sort_index, is_skinned))
            IN  [batch_map |-> IF hit THEN bm ELSE MapInsert(bm, key, index),
                 batches |-> [found EXCEPT ![index + 1] =
                                 PushInstance(@, instance_data)],
                 key |-> key, hit |-> hit, index |-> index]
    IN  Eval(Select, PushKey(material, data, is_skinned, decal_layer_index,
                             render_path))

----------------------------------------------------------------------------
(* push_triangles                                                          *)

\* The address of the surface data push_triangles allocates: one not in use.
FreshSurfaceKey(sf) == 12288 + 64 * Cardinality(DOMAIN sf \ Surfaces)

\* SurfaceData::new over an empty vertex buffer of layout T and an empty
\* triangle buffer.
EmptySurface(vertex_type) ==
    [layout |-> vertex_type, vertices |-> <<>>, triangles |-> <<>>]

\* The temporary batch is given the default time to live.
TrianglesNewBatch_DefaultTimeToLive(data, material, render_path, decal_layer_index, sort_index, is_skinned, node_handle) ==
    [data |-> data, sort_index |-> sort_index,
     instances |-> << [world_transform |-> "identity", bone_matrices |-> 0,
                       persistent_identifier |->
                           NewCombined(data, node_handle, 0),
                       node_handle |-> node_handle] >>,
     material |-> material, is_skinned |-> is_skinned,
     render_path |-> render_path, decal_layer_index |-> decal_layer_index,
     time_to_live |-> "Default"]

\* The batch push_triangles creates on a key miss, with its placeholder
\* instance.
TrianglesNewBatch(data, material, render_path, decal_layer_index, sort_index, is_skinned, node_handle) ==
    [data |-> data, sort_index |-> sort_index,
     instances |-> << [world_transform |-> "identity", bone_matrices |-> 0,
                       persistent_identifier |->
                           NewCombined(data, node_handle, 0),
                       node_handle |-> node_handle] >>,
     material |-> material, is_skinned |-> is_skinned,
     render_path |-> render_path, decal_layer_index |-> decal_layer_index,
     time_to_live |-> "Zero"]

\* TriangleDefinition::add
TriangleAdd(t, i) == <<t[1] + i, t[2] + i, t[3] + i>>

\* local_triangles.map(|t| t.add(last_vertex_index))
OffsetTriangles(local_triangles, last_vertex_index) ==
    [i \in 1..Len(local_triangles) |->
        TriangleAdd(local_triangles[i], last_vertex_index)]

\* The vertices of one call: the call's number and the local index.
VerticesOf(call, nverts) == [i \in 1..nverts |-> <<call, i - 1>>]

\* push_vertices_iter fails when T is not the layout of the buffer.
LayoutMatches(surface, vertex_type) == surface.layout = vertex_type

\* The vertex count is read after the vertices were appended.
AppendGeometry_CountAfterAppend(surface, vertices, local_triangles) ==
    [surface EXCEPT
        !.vertices = @ \o vertices,
        !.triangles = @ \o OffsetTriangles(local_triangles,
                               Len(surface.vertices) + Len(vertices))]

\* The surface after the vertices and the triangles were appended.
AppendGeometry(surface, vertices, local_triangles) ==
    LET last_vertex_index == Len(surface.vertices)
    IN  [surface EXCEPT
            !.vertices = @ \o vertices,
            !.triangles = @ \o OffsetTriangles(local_triangles,
                                               last_vertex_index)]

\* RenderDataBatchStorage::push_triangles on the storage (bm, bs) and the
\* surfaces sf.
PushTriangles(bm, bs, sf, vertices, local_triangles, vertex_type, material, render_path, decal_layer_index, sort_index, is_skinned, node_handle) ==
    LET Select(key) ==
            LET hit == key \in DOMAIN bm
                index == IF hit THEN bm[key] ELSE NewBatchIndex(bs)
                data == IF hit THEN bs[index + 1].data ELSE FreshSurfaceKey(sf)
                found == FoundBatches(bs, hit, index,
                             TrianglesNewBatch(data, material, render_path,
                                 decal_layer_index, sort_index, is_skinned,
                                 node_handle))
                surface == IF hit THEN sf[data] ELSE EmptySurface(vertex_type)
                ok == LayoutMatches(surface, vertex_type)
                after == IF ok THEN AppendGeometry(surface, vertices,
                                                   local_triangles)
                         ELSE surface
            IN  [batch_map |-> IF hit THEN bm ELSE MapInsert(bm, key, index),
                 batches |-> found,
                 surfaces |-> (data :> after) @@ sf,
                 fatal |-> ~ok,
                 key |-> key, hit |-> hit, index |-> index]
    IN  Eval(Select, TrianglesKey(material, vertex_type, is_skinned,
                                  decal_layer_index, render_path))

----------------------------------------------------------------------------
(* sort                                                                    *)

\* The batches are ordered by another of their numbers.
SortKey_DecalLayer(batch) == batch.decal_layer_index

\* |b| b.sort_index
SortKey(batch) == batch.sort_index

IsSortedByKey(bs) ==
    \A i \in 1..(Len(bs) - 1) : SortKey(bs[i]) <= SortKey(bs[i + 1])

\* Batches of equal keys are merged into the first of them.
SortUnstableByKey_Dedup(bs) ==
    { r \in UNION { [1..n -> { bs[i] : i \in 1..Len(bs) }] : n \in 0..Len(bs) } :
        /\ \A i \in 1..(Len(r) - 1) : SortKey(r[i]) < SortKey(r[i + 1])
        /\ \A i \in 1..Len(bs) : \E j \in 1..Len(r) : SortKey(r[j]) = SortKey(bs[i]) }

\* sort_unstable_by_key: some rearrangement of the list that is ordered by
\* the key; the order among equal keys is left to the library.
SortUnstableByKey(bs) ==
    { r \in { [i \in 1..Len(bs) |-> bs[p[i]]] :
                  p \in Permutations(1..Len(bs)) } : IsSortedByKey(r) }

----------------------------------------------------------------------------
(* A node contributing its drawable: Node::collect_render_data.            *)

\* The storage, the surfaces and the record of the call after the node in
\* `slot` handed its drawable to the storage.
Contribute(slot) ==
    LET d == graph[slot].drawable
        h == HandleOf(slot)
    IN  IF d.kind = "surface"
        THEN LET Pushed(r) ==
                     [batch_map |-> r.batch_map, batches |-> r.batches,
                      surfaces |-> surfaces, fatal |-> FALSE,
                      call |-> [op |-> "push", node |-> slot, key |-> r.key,
                                hit |-> r.hit, index |-> r.index]]
             IN  Eval(Pushed, Push(batch_map, batches, d.data, d.material,
                          d.path, d.decal, d.sort_index,
                          InstanceOf(graph[slot], h)))
        ELSE LET Pushed(r) ==
                     [batch_map |-> r.batch_map, batches |-> r.batches,
                      surfaces |-> r.surfaces, fatal |-> r.fatal,
                      call |-> [op |-> "push_triangles", node |-> slot,
                                key |-> r.key, hit |-> r.hit,
                                index |-> r.index]]
             IN  Eval(Pushed, PushTriangles(batch_map, batches, surfaces,
                          VerticesOf(calls + 1, d.shape.nverts), d.shape.tris,
                          d.vertex_type, d.material, d.path, d.decal,
                          d.sort_index, d.is_skinned, h))

----------------------------------------------------------------------------
(* The storage driven through its public operations.                       *)

\* The identifier a node gives the instance of its surface: new_combined
\* of the surface data, the node's handle and index 0.
InstanceIdentifier(slot, generation, d) ==
    IF d.kind = "surface" THEN NewCombined(d.data, Handle(slot, generation), 0)
    ELSE U64(0)

\* A scene node in a slot, with a drawable and no LOD group.
PlainNode(slot, d) ==
    [alive |-> TRUE, generation |-> 1, position |-> <<0, 0, 0>>,
     has_lod |-> FALSE, levels |-> <<>>, drawable |-> d,
     persistent_identifier |-> InstanceIdentifier(slot, 1, d)]

\* A shared surface as a mesh holds it: one triangle over three vertices.
SharedSurface(key) ==
    [layout |-> SurfaceLayout(key),
     vertices |-> << <<0, 0>>, <<0, 1>>, <<0, 2>> >>,
     triangles |-> << <<0, 1, 2>> >>]

DefaultObserver == [position |-> <<0, 0, 0>>, z_near |-> 0, z_far |-> 10]

\* RenderDataBatchStorage::default() and the nodes of one of `graphs`.
InitStorage(graphs) ==
    /\ graph \in graphs
    /\ batch_map = << >>
    /\ batches = << >>
    /\ surfaces = [k \in Surfaces |-> SharedSurface(k)]
    /\ observer = DefaultObserver
    /\ lod_filter = [s \in DOMAIN graph |-> TRUE]
    /\ pc = "api"
    /\ cursor = 0
    /\ asked = [s \in DOMAIN graph |-> 0]
    /\ last = NoCall
    /\ calls = 0
    /\ fatal = FALSE
    /\ NoEditor

\* The caller hands the drawable of the node in `slot` to the storage.
ApiCall(slot, kind) ==
    /\ pc = "api"
    /\ ~fatal
    /\ calls < MaxCalls
    /\ graph[slot].drawable.kind = kind
    /\ \E r \in {Contribute(slot)} :
           /\ batch_map' = r.batch_map
           /\ batches' = r.batches
           /\ surfaces' = r.surfaces
           /\ fatal' = r.fatal
           /\ last' = r.call
    /\ asked' = [asked EXCEPT ![slot] = @ + 1]
    /\ calls' = calls + 1
    /\ UNCHANGED <<editor_vars, graph, observer, lod_filter, pc, cursor>>

ApiPush == \E slot \in Slots : ApiCall(slot, "surface")

ApiPushTriangles == \E slot \in Slots : ApiCall(slot, "triangles")

\* RenderDataBatchStorage::sort
ApiSort ==
    /\ pc = "api"
    /\ ~fatal
    /\ calls < MaxCalls
    /\ \E r \in SortUnstableByKey(batches) : batches' = r
    /\ last' = [NoCall EXCEPT !.op = "sort"]
    /\ calls' = calls + 1
    /\ UNCHANGED <<editor_vars, batch_map, surfaces, graph, observer, lod_filter, pc,
                   cursor, asked, fatal>>

\* Two nodes whose drawables are taken from `descs`.
TwoNodes(descs) ==
    { (0 :> n0) @@ (1 :> n1) : n0 \in { PlainNode(0, d) : d \in descs },
                               n1 \in { PlainNode(1, d) : d \in descs } }

\* A drawable for push and one for push_triangles.
SurfaceDesc(material, data, bones, decal, path, sort_index) ==
    [NoDrawable EXCEPT !.kind = "surface", !.material = material,
                       !.data = data, !.bones = bones, !.decal = decal,
                       !.path = path, !.sort_index = sort_index]

TrianglesDesc(material, vertex_type, is_skinned, decal, path, sort_index, shape) ==
    [NoDrawable EXCEPT !.kind = "triangles", !.material = material,
                       !.vertex_type = vertex_type, !.is_skinned = is_skinned,
                       !.decal = decal, !.path = path,
                       !.sort_index = sort_index, !.shape = shape]

Triangle == [nverts |-> 3, tris |-> << <<0, 1, 2>> >>]

\* The three nodes of the runs that mix the three operations: a mesh, a
\* node that is a mesh of the same surface or emits triangles, and a node
\* that emits triangles.
SceneGraphs ==
    { (0 :> PlainNode(0, d0)) @@ (1 :> PlainNode(1, d1))
          @@ (2 :> PlainNode(2, d2)) :
        d0 \in { SurfaceDesc(4096, 8192, b, 0, 1, i) :
                     b \in BoneCounts, i \in SortIndices },
        d1 \in { SurfaceDesc(4096, 8192, 0, 0, 1, i) : i \in SortIndices }
                   \cup { TrianglesDesc(4160, "StaticVertex", FALSE, 0, 1, i,
                                        Triangle) : i \in SortIndices },
        d2 \in { TrianglesDesc(4160, t, FALSE, 0, 1, i, Triangle) :
                     t \in VertexTypes, i \in SortIndices } }

Init == InitStorage(SceneGraphs)

Next == ApiPush \/ ApiPushTriangles \/ ApiSort

Spec == Init /\ [][Next]_vars

\* Runs of push alone, over every combination of the parameters of its key.
InitPush == InitStorage(TwoNodes({ d \in PushDescs : d.sort_index = 1 }))

NextPush == ApiPush

SpecPush == InitPush /\ [][NextPush]_vars

\* Runs of push_triangles alone.
InitTriangles ==
    InitStorage(TwoNodes({ d \in TriDescs :
                             d.sort_index = 1 /\ d.decal = 0 /\ d.path = 0 }))

NextTriangles == ApiPushTriangles

SpecTriangles == InitTriangles /\ [][NextTriangles]_vars

\* Runs of push and sort: two meshes of one surface and one material, each
\* skinned or not, with its own sort index and render path.
InitPushSort ==
    InitStorage(TwoNodes({ d \in PushDescs :
                             /\ d.material = 4096
                             /\ d.data = 8192
                             /\ d.decal = 0 }))

NextPushSort == ApiPush \/ ApiSort

SpecPushSort == InitPushSort /\ [][NextPushSort]_vars

----------------------------------------------------------------------------
(* from_graph                                                              *)

\* Pool::try_get: the slot exists, is occupied and has the generation of
\* the handle.
TryGet(handle) ==
    /\ handle.index \in Slots
    /\ graph[handle.index].alive
    /\ graph[handle.index].generation = handle.generation

\* The square root of a perfect square.
ISqrt(n) == CHOOSE r \in 0..n : r * r = n

\* Vector3::metric_distance
MetricDistance(a, b) ==
    ISqrt((a[1] - b[1]) * (a[1] - b[1]) + (a[2] - b[2]) * (a[2] - b[2])
              + (a[3] - b[3]) * (a[3] - b[3]))

\* The near plane is not subtracted.
NormalizedDistance_FromZero(distance, z_near, z_range) ==
    IF z_range > 0 THEN [num |-> distance, den |-> z_range]
    ELSE IF z_range < 0 THEN [num |-> 0 - distance, den |-> 0 - z_range]
    ELSE [num |-> distance, den |-> 0]

\* (distance - z_near) / z_range, an f32: a fraction with a positive
\* denominator, or, z_range being zero, a fraction with denominator 0 that
\* stands for NaN (numerator 0), +infinity (numerator above 0) or
\* -infinity (numerator below 0).
NormalizedDistance(distance, z_near, z_range) ==
    IF z_range > 0 THEN [num |-> distance - z_near, den |-> z_range]
    ELSE IF z_range < 0 THEN [num |-> z_near - distance, den |-> 0 - z_range]
    ELSE [num |-> distance - z_near, den |-> 0]

\* normalized_distance >= level.begin() && normalized_distance <= level.end(),
\* the bounds of a level being kept in tenths.  Every comparison with NaN is
\* false; +infinity is above and -infinity below every bound.
LodVisible(normalized_distance, level) ==
    /\ IF normalized_distance.den = 0
       THEN normalized_distance.num > 0
       ELSE normalized_distance.num * 10 >= level.begin * normalized_distance.den
    /\ IF normalized_distance.den = 0
       THEN normalized_distance.num < 0
       ELSE normalized_distance.num * 10 <= level.end * normalized_distance.den

\* The flag lines 174-180 compute for an object under a level.
ObjectVisible(object, level) ==
    LET distance == MetricDistance(observer.position,
                                   graph[object.index].position)
        z_range == observer.z_far - observer.z_near
    IN  LodVisible(NormalizedDistance(distance, observer.z_near, z_range),
                   level)

RECURSIVE LevelRefs(_, _)
\* The (level, object) pairs of a level, in the order of its object list.
LevelRefs(level, i) ==
    IF i > Len(level.objects) THEN << >>
    ELSE << [level |-> level, object |-> level.objects[i]] >>
             \o LevelRefs(level, i + 1)

RECURSIVE GroupRefs(_, _)
\* The pairs of the levels of an LOD group, level by level.
GroupRefs(levels, i) ==
    IF i > Len(levels) THEN << >>
    ELSE LevelRefs(levels[i], 1) \o GroupRefs(levels, i + 1)

RECURSIVE GraphRefs(_)
\* The pairs the three nested loops of lines 169-172 go through, in order:
\* graph.linear_iter() yields the occupied slots in ascending order.
GraphRefs(slot) ==
    IF slot \notin Slots THEN << >>
    ELSE (IF graph[slot].alive /\ graph[slot].has_lod
          THEN GroupRefs(graph[slot].levels, 1) ELSE << >>)
             \o GraphRefs(slot + 1)

\* Every visibility is and-ed into the slot.
SetFilter_Accumulate(filter, object, visible) ==
    [filter EXCEPT ![object.index] = @ /\ visible]

\* lod_filter[object.index() as usize] = visible
SetFilter(filter, object, visible) == [filter EXCEPT ![object.index] = visible]

\* An object that is not found is hidden.
FilterAfter_MissingHidden(filter, ref) ==
    IF TryGet(ref.object)
    THEN SetFilter(filter, ref.object, ObjectVisible(ref.object, ref.level))
    ELSE IF ref.object.index \in DOMAIN filter
         THEN [filter EXCEPT ![ref.object.index] = FALSE]
         ELSE filter

\* The body of the innermost loop: the filter after one (level, object)
\* pair; an object try_get does not find leaves it as it is.
FilterAfter(filter, ref) ==
    IF TryGet(ref.object)
    THEN SetFilter(filter, ref.object, ObjectVisible(ref.object, ref.level))
    ELSE filter

\* One round of the innermost loop.
LodStep ==
    /\ pc = "lod"
    /\ \E refs \in {GraphRefs(0)} :
           /\ cursor < Len(refs)
           /\ lod_filter' = FilterAfter(lod_filter, refs[cursor + 1])
    /\ cursor' = cursor + 1
    /\ UNCHANGED <<editor_vars, batch_map, batches, surfaces, graph, observer, pc, asked,
                   last, calls, fatal>>

\* The loops are over: the frustum and the context are built and the
\* traversal starts.
LodDone ==
    /\ pc = "lod"
    /\ cursor = Len(GraphRefs(0))
    /\ pc' = "collect"
    /\ cursor' = 0
    /\ UNCHANGED <<editor_vars, batch_map, batches, surfaces, graph, observer, lod_filter,
                   asked, last, calls, fatal>>

\* The filter is not consulted.
ShouldCollect_Always(filter, handle) == TRUE

\* if lod_filter[handle.index() as usize]
ShouldCollect(filter, handle) == filter[handle.index]

\* graph.pair_iter() reaches an occupied slot that passes the filter: the
\* node is asked for its render data.
VisitCollect ==
    /\ pc = "collect"
    /\ ~fatal
    /\ cursor \in Slots
    /\ graph[cursor].alive
    /\ ShouldCollect(lod_filter, HandleOf(cursor))
    /\ asked' = [asked EXCEPT ![cursor] = @ + 1]
    /\ IF graph[cursor].drawable.kind = "none"
       THEN UNCHANGED <<batch_map, batches, surfaces, fatal, last, calls>>
       ELSE /\ \E r \in {Contribute(cursor)} :
                   /\ batch_map' = r.batch_map
                   /\ batches' = r.batches
                   /\ surfaces' = r.surfaces
                   /\ fatal' = r.fatal
                   /\ last' = r.call
            /\ calls' = calls + 1
    /\ cursor' = cursor + 1
    /\ UNCHANGED <<editor_vars, graph, observer, lod_filter, pc>>

\* pair_iter() passes a vacant slot, or a node the filter rejects.
VisitSkip ==
    /\ pc = "collect"
    /\ ~fatal
    /\ cursor \in Slots
    /\ ~(graph[cursor].alive /\ ShouldCollect(lod_filter, HandleOf(cursor)))
    /\ cursor' = cursor + 1
    /\ UNCHANGED <<editor_vars, batch_map, batches, surfaces, graph, observer, lod_filter,
                   pc, asked, last, calls, fatal>>

\* The storage is returned as the traversal left it.
FinishSort_NoSort ==
    /\ pc = "collect"
    /\ ~fatal
    /\ cursor \notin Slots
    /\ pc' = "done"
    /\ UNCHANGED <<editor_vars, batch_map, batches, surfaces, graph, observer, lod_filter,
                   cursor, asked, last, calls, fatal>>

\* storage.sort(); storage
FinishSort ==
    /\ pc = "collect"
    /\ ~fatal
    /\ cursor \notin Slots
    /\ \E r \in SortUnstableByKey(batches) : batches' = r
    /\ last' = [NoCall EXCEPT !.op = "sort"]
    /\ pc' = "done"
    /\ UNCHANGED <<editor_vars, batch_map, surfaces, graph, observer, lod_filter, cursor,
                   asked, calls, fatal>>

\* The graphs from_graph is run on: three pool slots, an LOD group on the
\* node of slot 0 over the nodes of slots 1 and 2, slot 2 occupied or not.
LodRanges == { <<2, 6>>, <<0, 2>>, <<6, 10>> }

LodObjectLists ==
    { << Handle(1, 1) >>, << Handle(2, 1) >>, << Handle(1, 1), Handle(2, 1) >>,
      << Handle(2, 2), Handle(1, 1) >>, << Handle(7, 1) >> }

LodLevels ==
    { [begin |-> r[1], end |-> r[2], objects |-> o] :
          r \in LodRanges, o \in LodObjectLists }

LodGroups ==
    { << l >> : l \in LodLevels }
        \cup { << l, m >> : l \in LodLevels,
                            m \in { n \in LodLevels : n.objects = << Handle(1, 1) >> } }

\* The LOD group of the node of slot 2: none, or one over the node of slot 1
\* and the node of slot 0.
SecondGroups ==
    { << >>,
      << [begin |-> 0, end |-> 2, objects |-> << Handle(1, 1) >>] >>,
      << [begin |-> 6, end |-> 10,
          objects |-> << Handle(1, 1), Handle(0, 1) >>] >> }

ObjectPositions == { <<2, 0, 0>>, <<3, 0, 0>>, <<0, 6, 0>>, <<0, 0, 8>> }

Observers ==
    { [position |-> <<0, 0, 0>>, z_near |-> 0, z_far |-> 10],
      [position |-> <<0, 0, 0>>, z_near |-> 1, z_far |-> 11],
      [position |-> <<0, 0, 0>>, z_near |-> 2, z_far |-> 2] }

GraphDrawable(slot) ==
    IF slot = 0 THEN SurfaceDesc(4096, 8192, 0, 0, 0, 2)
    ELSE IF slot = 1 THEN SurfaceDesc(4160, 8192, 0, 0, 0, 1)
    ELSE TrianglesDesc(4096, "SimpleVertex", FALSE, 0, 1, 1, Triangle)

InitGraph ==
    /\ \E nodes \in { (0 :> PlainNode(0, GraphDrawable(0)))
                       @@ (1 :> PlainNode(1, GraphDrawable(1)))
                       @@ (2 :> PlainNode(2, GraphDrawable(2))) } :
       \E group \in LodGroups, group2 \in SecondGroups,
          p1 \in ObjectPositions, alive2 \in BOOLEAN :
           graph =
               (0 :> [nodes[0] EXCEPT !.has_lod = TRUE, !.levels = group])
               @@ (1 :> [nodes[1] EXCEPT !.position = p1])
               @@ (2 :> [nodes[2] EXCEPT !.position = <<0, 0, 8>>,
                                         !.alive = alive2,
                                         !.has_lod = (group2 # << >>),
                                         !.levels = group2])
    /\ observer \in Observers
    /\ batch_map = << >>
    /\ batches = << >>
    /\ surfaces = [k \in Surfaces |-> SharedSurface(k)]
    /\ lod_filter = [s \in {0, 1, 2} |-> TRUE]
    /\ pc = "lod"
    /\ cursor = 0
    /\ asked = [s \in {0, 1, 2} |-> 0]
    /\ last = NoCall
    /\ calls = 0
    /\ fatal = FALSE
    /\ NoEditor

NextGraph == LodStep \/ LodDone \/ VisitCollect \/ VisitSkip \/ FinishSort

SpecGraph == InitGraph /\ [][NextGraph]_vars

----------------------------------------------------------------------------
(* Properties of push.                                                     *)

\* The parameters of the key of the drawable a node hands to push.
PushParams(slot) ==
    LET d == graph[slot].drawable
    IN  <<d.material, d.data, d.bones > 0, d.decal, d.path>>

\* The same five parameters as a batch records them.
BatchParams(b) ==
    <<b.material, b.data, b.is_skinned, b.decal_layer_index, b.render_path>>

\* The batches holding an instance emitted by the node of a slot.
BatchesOf(slot) ==
    { i \in 1..Len(batches) :
        \E j \in 1..Len(batches[i].instances) :
            batches[i].instances[j].node_handle = HandleOf(slot) }

\* The number of push calls made with the parameters of a slot.
CallsLike(slot) ==
    IF PushParams(0) = PushParams(1) THEN asked[0] + asked[1] ELSE asked[slot]

\* C1: in a run of push calls on a fresh storage, the calls that share
\* (material, geometry, skinned flag, decal layer, render path) all put
\* their instances into one batch, and after n such calls that batch holds
\* exactly n instances.
C1_SameParamsOneBatch ==
    \A s \in Slots :
        asked[s] > 0 =>
            \E i \in 1..Len(batches) :
                /\ BatchParams(batches[i]) = PushParams(s)
                /\ Len(batches[i].instances) = CallsLike(s)
                /\ \A t \in Slots :
                       (asked[t] > 0 /\ PushParams(t) = PushParams(s))
                           => BatchesOf(t) = {i}

C1_Witness ==
    /\ PushParams(0) = PushParams(1)
    /\ asked[0] = 2
    /\ asked[1] = 1
    /\ Len(batches) = 1
    /\ Len(batches[1].instances) = 3

\* The number of the five parameters in which two parameter tuples differ.
DiffCount(p, q) == Cardinality({ i \in 1..5 : p[i] # q[i] })

\* C2: two push calls whose parameters differ in exactly one of material,
\* geometry, skinned flag, decal layer and render path end up in two
\* distinct batches, and the storage holds one batch per distinct parameter
\* tuple pushed.
C2_DifferentParamsDistinctBatches ==
    /\ \A s, t \in Slots :
           (asked[s] > 0 /\ asked[t] > 0
                /\ DiffCount(PushParams(s), PushParams(t)) = 1)
               => BatchesOf(s) \cap BatchesOf(t) = {}
    /\ Len(batches)
           = Cardinality({ PushParams(s) : s \in { t \in Slots : asked[t] > 0 } })
    /\ \A i, j \in 1..Len(batches) :
           BatchParams(batches[i]) = BatchParams(batches[j]) => i = j

\* Two calls that differ only in whether the instance carries bone matrices.
C2_Witness ==
    /\ asked[0] > 0
    /\ asked[1] > 0
    /\ DiffCount(PushParams(0), PushParams(1)) = 1
    /\ PushParams(0)[3] # PushParams(1)[3]
    /\ Len(batches) = 2

----------------------------------------------------------------------------
(* Properties of the storage under push, push_triangles and sort.          *)

\* The batch the last call put its data into.
LastBatch == batches[last.index + 1]

\* No two batches share a sort key, so the order sort leaves is fixed.
SortKeysDistinct ==
    \A i, j \in 1..Len(batches) :
        batches[i].sort_index = batches[j].sort_index => i = j

\* C3: a push or push_triangles call whose key already has a batch adds its
\* data to the batch created for that key: the receiving batch has the
\* material, the geometry (push) or vertex layout (push_triangles), the
\* skinned flag, the decal layer and the render path of the call.  Stated
\* for the storages in which no two batches share a sort key.
C3_ReusedBatchMatchesCall ==
    (last.op \in {"push", "push_triangles"} /\ last.hit /\ SortKeysDistinct) =>
        LET d == graph[last.node].drawable
        IN  /\ LastBatch.material = d.material
            /\ LastBatch.decal_layer_index = d.decal
            /\ LastBatch.render_path = d.path
            /\ last.op = "push" =>
                   /\ LastBatch.data = d.data
                   /\ LastBatch.is_skinned = (d.bones > 0)
            /\ last.op = "push_triangles" =>
                   /\ surfaces[LastBatch.data].layout = d.vertex_type
                   /\ LastBatch.is_skinned = d.is_skinned

\* C4: the key -> index map is a bijection onto the indices of the batch
\* list: its values are pairwise distinct, each is below the number of
\* batches, and every index 0..len-1 is the value of exactly one key.
C4_BatchMapBijection ==
    /\ \A k \in DOMAIN batch_map :
           batch_map[k] >= 0 /\ batch_map[k] < Len(batches)
    /\ \A k, l \in DOMAIN batch_map : batch_map[k] = batch_map[l] => k = l
    /\ \A i \in 0..(Len(batches) - 1) :
           Cardinality({ k \in DOMAIN batch_map : batch_map[k] = i }) = 1

\* Three batches of both kinds, rearranged by a sort and pushed to again.
C4_Witness ==
    /\ Len(batches) = 3
    /\ Cardinality(DOMAIN batch_map) = 3
    /\ \E i, j \in 1..3 : /\ batches[i].time_to_live = "Zero"
                          /\ batches[j].time_to_live = "Default"
    /\ batches[1].data = 12352

\* C5: after every push, push_triangles and sort, every batch of the
\* storage has at least one instance.
C5_NoEmptyBatch ==
    \A i \in 1..Len(batches) : Len(batches[i].instances) >= 1

\* A batch created by push and one created by push_triangles.
C5_Witness ==
    /\ last.op = "push"
    /\ ~last.hit
    /\ \E i, j \in 1..Len(batches) :
           /\ batches[i].time_to_live = "Zero"
           /\ batches[j].time_to_live = "Default"
           /\ Len(batches[j].instances) = 1

\* C7: after sort, the sort key of every batch is less than or equal to the
\* sort key of the batch that follows it.
C7_SortedAfterSort ==
    last.op = "sort" =>
        \A i \in 1..(Len(batches) - 1) :
            batches[i].sort_index <= batches[i + 1].sort_index

\* A sort that had to move a batch created later in front of an earlier one.
C7_Witness ==
    /\ last.op = "sort"
    /\ Len(batches) = 3
    /\ batches[1].sort_index < batches[3].sort_index
    /\ batches[1].data = 12352
    /\ batches[3].data = 12288

\* C13: under push and sort, the is_skinned flag of a batch agrees with
\* every instance in it: it is true if and only if the instance has a
\* non-empty list of bone matrices.  Stated for the storages in which no two
\* batches share a sort key.
C13_SkinnedFlagAgrees ==
    SortKeysDistinct =>
        \A i \in 1..Len(batches) :
            \A j \in 1..Len(batches[i].instances) :
                batches[i].is_skinned
                    = (batches[i].instances[j].bone_matrices > 0)

\* What C17 states of one push or push_triangles call that found a batch.
C17_Step ==
    LET at == last'.index + 1
        old == batches[at]
        new == batches'[at]
    IN  (last'.op \in {"push", "push_triangles"} /\ last'.hit) =>
            /\ batch_map' = batch_map
            /\ Len(batches') = Len(batches)
            /\ \A i \in 1..Len(batches) : i # at => batches'[i] = batches[i]
            /\ new.sort_index = old.sort_index
            /\ new.material = old.material
            /\ new.is_skinned = old.is_skinned
            /\ new.render_path = old.render_path
            /\ new.decal_layer_index = old.decal_layer_index
            /\ new.time_to_live = old.time_to_live
            /\ new.data = old.data
            /\ DOMAIN surfaces' = DOMAIN surfaces
            /\ \A k \in DOMAIN surfaces :
                   (last'.op = "push" \/ k # old.data)
                       => surfaces'[k] = surfaces[k]
            /\ last'.op = "push" =>
                   /\ Len(new.instances) = Len(old.instances) + 1
                   /\ \A j \in 1..Len(old.instances) :
                          new.instances[j] = old.instances[j]
            /\ last'.op = "push_triangles" => new.instances = old.instances

\* C17: a push or push_triangles call that finds a batch for its key
\* changes only the instance list (push) or the geometry (push_triangles)
\* of that batch: its sort key, material, skinned flag, render path, decal
\* layer and time-to-live stay as they were, the sort_index of the call is
\* ignored, and every other batch and the key -> index map are unchanged.
C17_ReuseChangesOnlyTheBatch == [][C17_Step]_vars

\* A push that found the batch of its key, created with another sort index.
C17_Witness ==
    /\ last.op = "push"
    /\ last.hit
    /\ BatchParams(LastBatch) = PushParams(last.node)
    /\ LastBatch.sort_index # graph[last.node].drawable.sort_index
    /\ Len(LastBatch.instances) = 2
    /\ Len(batches) = 2

\* What C18 states of one sort call.
C18_Step ==
    last'.op = "sort" =>
        /\ batch_map' = batch_map
        /\ surfaces' = surfaces
        /\ Len(batches') = Len(batches)
        /\ \E p \in Permutations(1..Len(batches)) :
               \A i \in 1..Len(batches) : batches'[i] = batches[p[i]]

\* C18: sort changes only the order of the batch list: the list after it
\* is a permutation of the list before, each batch keeping its instances in
\* their order, its geometry, material and flags, and the key -> index map
\* is left unchanged.
C18_SortPermutesOnly == [][C18_Step]_vars

\* Three batches of one instance each, the batch created last moved to the
\* front, the map still holding three keys.
C18_Witness ==
    /\ last.op = "sort"
    /\ Len(batches) = 3
    /\ batches[1].data = 12352
    /\ batches[2].data = 12288
    /\ batches[3].data = 8192
    /\ \A i \in 1..3 : Len(batches[i].instances) = 1
    /\ Cardinality(DOMAIN batch_map) = 3

----------------------------------------------------------------------------
(* Properties of push_triangles.                                           *)

\* The surface of a key before a call, empty when the call allocated it.
SurfaceBefore(key) ==
    IF key \in DOMAIN surfaces THEN surfaces[key] ELSE EmptySurface("none")

\* What C6 states of one push_triangles call.
C6_Step ==
    LET d == graph[last'.node].drawable
        key == batches'[last'.index + 1].data
        old == SurfaceBefore(key)
        new == surfaces'[key]
        n1 == Len(old.vertices)
        n2 == d.shape.nverts
        m1 == Len(old.triangles)
    IN  last'.op = "push_triangles" =>
            /\ Len(new.vertices) = n1 + n2
            /\ \A i \in 1..n1 : new.vertices[i] = old.vertices[i]
            /\ \A i \in 1..n2 : new.vertices[n1 + i] = <<calls', i - 1>>
            /\ Len(new.triangles) = m1 + Len(d.shape.tris)
            /\ \A i \in 1..m1 : new.triangles[i] = old.triangles[i]
            /\ \A i \in 1..Len(d.shape.tris) : \A c \in 1..3 :
                   /\ new.triangles[m1 + i][c] = d.shape.tris[i][c] + n1
                   /\ new.triangles[m1 + i][c] >= n1
                   /\ new.triangles[m1 + i][c] < n1 + n2
                   /\ new.vertices[new.triangles[m1 + i][c] + 1][1] = calls'

\* C6: every push_triangles call appends its vertices after those already
\* in the geometry of the batch and stores its triangles with every local
\* index increased by the vertex count the geometry had before the call, so
\* after calls with n1 then n2 vertices the geometry has n1 + n2 vertices,
\* the second call's indices are offset by n1, and every stored index refers
\* to a vertex of the same call.
C6_TrianglesOffsetByVertexCount == [][C6_Step]_vars

\* Two calls with one key: 3 vertices, then 2 vertices whose triangles are
\* stored offset by 3.
C6_Witness ==
    /\ last.op = "push_triangles"
    /\ last.hit
    /\ Len(batches) = 1
    /\ Len(surfaces[batches[1].data].vertices) = 5
    /\ surfaces[batches[1].data].triangles
           = << <<0, 1, 2>>, <<3, 4, 4>>, <<4, 3, 3>> >>

\* C11: under push_triangles, push and sort, the batch push_triangles
\* selects for vertex type T has geometry whose vertex layout is T, so the
\* "Vertex types mismatch!" failure is never reached.  Stated for the
\* storages in which no two batches share a sort key.
C11_TrianglesBatchHasLayout ==
    (last.op = "push_triangles" /\ SortKeysDistinct) =>
        /\ ~fatal
        /\ surfaces[LastBatch.data].layout
               = graph[last.node].drawable.vertex_type

\* What C12 states of one push_triangles call.
C12_Step ==
    LET h == HandleOf(last'.node)
        new == batches'[last'.index + 1]
    IN  last'.op = "push_triangles" =>
            /\ ~last'.hit =>
                   /\ Len(batches') = Len(batches) + 1
                   /\ last'.index = Len(batches)
                   /\ new.data \notin DOMAIN surfaces
                   /\ new.time_to_live = "Zero"
                   /\ Len(new.instances) = 1
                   /\ new.instances[1].world_transform = "identity"
                   /\ new.instances[1].node_handle = h
                   /\ new.instances[1].persistent_identifier
                          = NewCombined(new.data, h, 0)
            /\ last'.hit => Len(batches') = Len(batches)
            /\ \A i \in 1..Len(batches) :
                   /\ batches'[i].instances = batches[i].instances
                   /\ batches'[i].time_to_live = batches[i].time_to_live
                   /\ batches'[i].data = batches[i].data

\* C12: a batch created by push_triangles has time-to-live zero and exactly
\* one placeholder instance with the identity transform, whose persistent
\* identifier is new_combined of the new geometry, the node handle of the
\* creating call and index 0; every later push_triangles call, from any
\* node handle, leaves the instances of the batches as they were.
C12_PlaceholderInstanceKept == [][C12_Step]_vars

\* A second node appended triangles to a batch another node created: the
\* batch still holds the creator's placeholder alone.
C12_Witness ==
    /\ last.op = "push_triangles"
    /\ last.hit
    /\ LastBatch.time_to_live = "Zero"
    /\ Len(LastBatch.instances) = 1
    /\ LastBatch.instances[1].node_handle # HandleOf(last.node)
    /\ LastBatch.instances[1].persistent_identifier
           = NewCombined(LastBatch.data, LastBatch.instances[1].node_handle, 0)
    /\ Len(surfaces[LastBatch.data].vertices) = 6

----------------------------------------------------------------------------
(* Properties of from_graph.                                               *)

\* C8: a node whose LOD-filter bit is false is never asked to contribute,
\* so the storage holds no batch or instance of that node, while every node
\* whose bit is true is asked exactly once.
C8_FilteredNodesNotAsked ==
    pc \in {"collect", "done"} =>
        \A s \in Slots :
            graph[s].alive =>
                IF lod_filter[s]
                THEN asked[s] = (IF s < cursor THEN 1 ELSE 0)
                ELSE asked[s] = 0 /\ BatchesOf(s) = {}

\* A finished traversal that skipped one drawable node and asked another.
C8_Witness ==
    /\ pc = "done"
    /\ \E s, t \in Slots :
           /\ graph[s].alive /\ ~lod_filter[s] /\ asked[s] = 0
           /\ graph[s].drawable.kind # "none"
           /\ graph[t].alive /\ lod_filter[t] /\ asked[t] = 1
           /\ BatchesOf(t) # {}

\* The number of (level, object) pairs of the graph that name the node of a
\* slot.
RefCount(slot) ==
    LET refs == GraphRefs(0)
    IN  Cardinality({ i \in 1..Len(refs) : refs[i].object = HandleOf(slot) })

\* The level of the only pair that names a slot.
OnlyLevel(slot) ==
    LET refs == GraphRefs(0)
    IN  refs[CHOOSE i \in 1..Len(refs) : refs[i].object = HandleOf(slot)].level

\* The distance from the observer to the node of a slot, squared.
DistanceSquared(slot) ==
    LET p == graph[slot].position
        o == observer.position
    IN  (p[1] - o[1]) * (p[1] - o[1]) + (p[2] - o[2]) * (p[2] - o[2])
            + (p[3] - o[3]) * (p[3] - o[3])

\* C9: an object referenced by exactly one LOD level with range
\* [begin, end] is marked visible if and only if
\* begin <= (distance - z_near) / (z_far - z_near) <= end; the bounds are in
\* tenths, and where z_far > z_near the quotient is compared after
\* multiplying out; where z_far = z_near the quotient is no finite number,
\* lies in no range, and the object is not visible.  With range [0.2, 0.6],
\* near 0 and far 10, distance 3 is visible and distance 8 is not.
C9_LodVisibleIffInRange ==
    pc \in {"collect", "done"} =>
        \A s \in Slots :
            (graph[s].alive /\ RefCount(s) = 1) =>
                \E distance \in 0..20 :
                    /\ distance * distance = DistanceSquared(s)
                    /\ lod_filter[s] =
                           (/\ observer.z_far > observer.z_near
                            /\ OnlyLevel(s).begin * (observer.z_far - observer.z_near)
                                   <= 10 * (distance - observer.z_near)
                            /\ 10 * (distance - observer.z_near)
                                   <= OnlyLevel(s).end * (observer.z_far - observer.z_near))
                    /\ (/\ OnlyLevel(s).begin = 2 /\ OnlyLevel(s).end = 6
                        /\ observer.z_near = 0 /\ observer.z_far = 10) =>
                           /\ distance = 3 => lod_filter[s]
                           /\ distance = 8 => ~lod_filter[s]

\* The scenario of the claim: one level [0.2, 0.6] over both objects, near
\* 0, far 10, one object at distance 3 and one at distance 8.
C9_Witness ==
    /\ pc = "collect"
    /\ observer.z_near = 0
    /\ observer.z_far = 10
    /\ Len(graph[0].levels) = 1
    /\ graph[0].levels[1].begin = 2
    /\ graph[0].levels[1].end = 6
    /\ graph[0].levels[1].objects = << Handle(1, 1), Handle(2, 1) >>
    /\ graph[1].position = <<3, 0, 0>>
    /\ graph[2].alive
    /\ graph[2].position = <<0, 0, 8>>
    /\ lod_filter[1]
    /\ ~lod_filter[2]

\* The positions, in the order of the loops, of the (level, object) pairs
\* whose object is the live node of a slot.
ValidRefs(slot) ==
    LET refs == GraphRefs(0)
    IN  IF graph[slot].alive
        THEN { i \in 1..Len(refs) : refs[i].object = HandleOf(slot) }
        ELSE {}

\* The level of the last of these pairs.
LastLevel(slot) ==
    LET last_ref == CHOOSE i \in ValidRefs(slot) :
                        \A j \in ValidRefs(slot) : j <= i
    IN  GraphRefs(0)[last_ref].level

\* begin <= (distance - z_near) / (z_far - z_near) <= end for the node of a
\* slot and a level, the bounds being in tenths; with z_far = z_near the
\* quotient is no finite number and lies in no range.
InRange(slot, level) ==
    \E distance \in 0..20 :
        /\ distance * distance = DistanceSquared(slot)
        /\ observer.z_far > observer.z_near
        /\ level.begin * (observer.z_far - observer.z_near)
               <= 10 * (distance - observer.z_near)
        /\ 10 * (distance - observer.z_near)
               <= level.end * (observer.z_far - observer.z_near)

\* C14: when a slot is referenced by several LOD levels or LOD groups, its
\* filter value is the visibility computed for the last reference in the
\* order of the nodes, then the levels, then the objects of a level;
\* earlier results are overwritten.
C14_LastReferenceWins ==
    pc \in {"collect", "done"} =>
        \A s \in Slots :
            Cardinality(ValidRefs(s)) >= 2 =>
                lod_filter[s] = InRange(s, LastLevel(s))

\* A node referenced by two levels of one group and by a second group: an
\* earlier level contains its distance, the last one does not, and the node
\* is hidden.
C14_Witness ==
    /\ pc = "collect"
    /\ \E s \in Slots :
           /\ Cardinality(ValidRefs(s)) = 3
           /\ \E i \in ValidRefs(s) : InRange(s, GraphRefs(0)[i].level)
           /\ ~InRange(s, LastLevel(s))
           /\ ~lod_filter[s]

\* The object of a (level, object) pair is not a live node of the graph:
\* its index is outside the pool, or the slot is vacant, or the slot holds a
\* node of another generation.
InvalidRef(ref) ==
    \/ ref.object.index \notin Slots
    \/ ~graph[ref.object.index].alive
    \/ graph[ref.object.index].generation # ref.object.generation

\* A slot that no valid pair names is visible.
C15_Unreferenced ==
    \A s \in Slots : ValidRefs(s) = {} => lod_filter[s]

\* The round of the loop on an invalid pair changes no slot of the filter
\* and goes on to the next pair.
C15_Step ==
    (/\ pc = "lod"
     /\ cursor < Len(GraphRefs(0))
     /\ InvalidRef(GraphRefs(0)[cursor + 1])) =>
        /\ lod_filter' = lod_filter
        /\ cursor' = cursor + 1
        /\ pc' = "lod"
        /\ fatal' = fatal

\* C15: every slot that no LOD level references keeps the default value
\* visible, and a level entry that refers to an invalid or removed object
\* changes no slot of the filter and raises no error; the entries after it
\* are still processed.
C15_InvalidEntriesSkipped == [](C15_Unreferenced) /\ [][C15_Step]_vars

\* A level lists a handle of an older generation of slot 2 and then the node
\* of slot 1: slot 2 stays visible and the entry after it hid slot 1.
C15_Witness ==
    /\ pc = "collect"
    /\ Len(GraphRefs(0)) >= 2
    /\ GraphRefs(0)[1].object = Handle(2, 2)
    /\ GraphRefs(0)[2].object = Handle(1, 1)
    /\ graph[2].alive
    /\ ValidRefs(2) = {}
    /\ lod_filter[2]
    /\ ~lod_filter[1]

\* C16: from_graph sorts only after the traversal has finished: the batch
\* list of the returned storage is non-decreasing in sort key, the sort is
\* the last operation on the storage, it comes after every node that passes
\* the filter was asked, and no sort happens before.
C16_SortedAfterTraversal ==
    /\ pc = "done" =>
           /\ \A i \in 1..(Len(batches) - 1) :
                  batches[i].sort_index <= batches[i + 1].sort_index
           /\ last.op = "sort"
           /\ cursor \notin Slots
           /\ \A s \in Slots :
                  graph[s].alive =>
                      asked[s] = (IF lod_filter[s] THEN 1 ELSE 0)
           /\ \A s \in Slots :
                  (graph[s].alive /\ lod_filter[s]) => BatchesOf(s) # {}
    /\ pc \in {"lod", "collect"} => last.op # "sort"

\* Three nodes contributed a batch each, in the order of their slots, and
\* the sort moved the batch of the first one to the end.
C16_Witness ==
    /\ pc = "done"
    /\ Len(batches) = 3
    /\ batches[3].instances[1].node_handle = Handle(0, 1)
    /\ batches[3].sort_index = 2
    /\ batches[1].sort_index = 1

----------------------------------------------------------------------------
(* The editor's UI scene: the widget pool of UserInterface, the clipboard  *)
(* and the selection, as the commands of ui_scene/commands/graph.rs use    *)
(* them.  A widget handle is the index of its pool slot; no slot is given  *)
(* out twice while a command lives, so generations play no part.           *)

\* The number of slots in the widget pool.
MaxWidgets == 5

\* The number of operations the command stack applies to one command.
MaxCommandOps == 5

WidgetHandles == 1 .. MaxWidgets

\* Handle::NONE
NONE == 0

\* UserInterface::root()
UiRoot == 1

\* A free slot, a slot reserved by take_reserve_sub_graph, and a widget.
Vacant == [state |-> "free", parent |-> NONE, children |-> << >>]

Reserved == [state |-> "reserved", parent |-> NONE, children |-> << >>]

Widget(parent, children) == [state |-> "alive", parent |-> parent, children |-> children]

\* ui.node(handle).parent()
NodeParent(nodes, handle) == nodes[handle].parent

RemoveHandle(handles, handle) == SelectSeq(handles, LAMBDA h : h # handle)

\* UserInterface::isolate_node: the widget leaves its parent's children.
IsolateNode(nodes, handle) ==
    IF nodes[handle].parent = NONE
    THEN nodes
    ELSE [nodes EXCEPT ![handle].parent = NONE,
                       ![nodes[handle].parent].children = RemoveHandle(@, handle)]

\* UserInterface::link_nodes(child, parent, false): the child leaves its old
\* parent and becomes the last child of the new one.
LinkNodes(nodes, child, parent) ==
    [IsolateNode(nodes, child) EXCEPT ![child].parent = parent,
                                      ![parent].children = Append(@, child)]

\* The widgets below the widgets of `stack`, these included.
RECURSIVE Descendants(_, _)
Descendants(nodes, stack) ==
    IF stack = << >>
    THEN {}
    ELSE {stack[Len(stack)]}
         \cup Descendants(nodes, SubSeq(stack, 1, Len(stack) - 1)
                                 \o nodes[stack[Len(stack)]].children)

\* SubGraph: the root, the widgets taken out of the pool, the root's parent.
SubGraph(nodes, root, taken) ==
    [root |-> root,
     parent |-> nodes[root].parent,
     nodes |-> [h \in taken |-> IsolateNode(nodes, root)[h]]]

\* UserInterface::take_reserve_sub_graph: the root is unlinked, and it and
\* its descendants leave the pool, their slots staying reserved.
TakeReserveSubGraph(nodes, root) ==
    LET taken == Descendants(nodes, <<root>>)
    IN  [nodes |-> [h \in DOMAIN nodes |->
                        IF h \in taken THEN Reserved
                        ELSE IsolateNode(nodes, root)[h]],
         sub_graph |-> SubGraph(nodes, root, taken)]

\* UserInterface::put_sub_graph_back: the widgets return to their slots, the
\* root is linked to the parent it was taken from; yields the root's handle.
PutSubGraphBack(nodes, sub_graph) ==
    [nodes |-> LinkNodes([h \in DOMAIN nodes |->
                              IF h \in DOMAIN sub_graph.nodes
                              THEN sub_graph.nodes[h] ELSE nodes[h]],
                         sub_graph.root, sub_graph.parent),
     handle |-> sub_graph.root]

\* UserInterface::forget_sub_graph: the reserved slots become free.
ForgetSubGraph(nodes, sub_graph) ==
    [h \in DOMAIN nodes |->
        IF h \in DOMAIN sub_graph.nodes THEN Vacant ELSE nodes[h]]

\* Pool::spawn: the first free slot.
FreeHandle(nodes) ==
    CHOOSE h \in DOMAIN nodes :
        /\ nodes[h].state = "free"
        /\ \A g \in DOMAIN nodes : nodes[g].state = "free" => h <= g

\* UserInterface::add_node: the widget takes a free slot, under `parent`.
AddNode(nodes, handle, parent) ==
    LinkNodes([nodes EXCEPT ![handle] = Widget(NONE, << >>)], handle, parent)

\* The clone of one clipboard widget with `child_count` children: the root
\* of the clone hangs under the UI root.
RECURSIVE CloneWidget(_, _, _)
CloneWidget(nodes, root, child_count) ==
    IF child_count = 0
    THEN nodes
    ELSE CloneWidget(AddNode(nodes, FreeHandle(nodes), root), root, child_count - 1)

\* Clipboard::paste: every widget the clipboard holds is cloned into the UI;
\* yields DeepCloneResult::root_nodes.
RECURSIVE ClipboardPaste(_, _, _)
ClipboardPaste(nodes, content, root_nodes) ==
    IF content = << >>
    THEN [nodes |-> nodes, root_nodes |-> root_nodes]
    ELSE ClipboardPaste(
             CloneWidget(AddNode(nodes, FreeHandle(nodes), UiRoot), FreeHandle(nodes), Head(content)),
             Tail(content), Append(root_nodes, FreeHandle(nodes)))

\* for &handle in root_nodes { ui.link_nodes(handle, parent, false) }
RECURSIVE LinkAll(_, _, _)
LinkAll(nodes, handles, parent) ==
    IF handles = << >>
    THEN nodes
    ELSE LinkAll(LinkNodes(nodes, Head(handles), parent), Tail(handles), parent)

\* for root_node in root_nodes { subgraphs.push(take_reserve_sub_graph(..)) }
RECURSIVE TakeAll(_, _, _)
TakeAll(nodes, root_nodes, subgraphs) ==
    IF root_nodes = << >>
    THEN [nodes |-> nodes, subgraphs |-> subgraphs]
    ELSE TakeAll(TakeReserveSubGraph(nodes, Head(root_nodes)).nodes,
                 Tail(root_nodes),
                 Append(subgraphs, TakeReserveSubGraph(nodes, Head(root_nodes)).sub_graph))

\* for subgraph in subgraphs { root_nodes.push(put_sub_graph_back(..)) }
RECURSIVE PutAll(_, _, _)
PutAll(nodes, subgraphs, root_nodes) ==
    IF subgraphs = << >>
    THEN [nodes |-> nodes, root_nodes |-> root_nodes]
    ELSE PutAll(PutSubGraphBack(nodes, Head(subgraphs)).nodes,
                Tail(subgraphs),
                Append(root_nodes, PutSubGraphBack(nodes, Head(subgraphs)).handle))

\* for subgraph in subgraphs { ui.forget_sub_graph(subgraph) }
RECURSIVE ForgetAll(_, _)
ForgetAll(nodes, subgraphs) ==
    IF subgraphs = << >>
    THEN nodes
    ELSE ForgetAll(ForgetSubGraph(nodes, Head(subgraphs)), Tail(subgraphs))

\* std::mem::swap(context.selection, &mut kept)
SwapSelection(context, kept) == [context |-> kept, kept |-> context]

\* The renderer does not run while the editor's UI scene is edited.
NoRenderer ==
    /\ graph = << >>
    /\ batch_map = << >>
    /\ batches = << >>
    /\ surfaces = << >>
    /\ observer = DefaultObserver
    /\ lod_filter = << >>
    /\ pc = "editor"
    /\ cursor = 0
    /\ asked = << >>
    /\ last = NoCall
    /\ calls = 0
    /\ fatal = FALSE

\* The UI scenes: the root alone, and the root with one widget.
UiScenes ==
    { [h \in WidgetHandles |-> IF h = UiRoot THEN Widget(NONE, << >>) ELSE Vacant],
      [h \in WidgetHandles |->
          CASE h = UiRoot -> Widget(NONE, <<2>>)
            [] h = 2 -> Widget(UiRoot, << >>)
            [] OTHER -> Vacant] }

\* What the clipboard holds: for each of its root widgets, the number of
\* children the widget has.
ClipboardContents == { << >>, <<0>>, <<1>>, <<0, 0>>, <<1, 0>> }

\* The selections the user makes between two operations of the stack.
UserSelections(nodes) ==
    {SelectionNone}
    \cup { SelectionUi(<<h>>) : h \in { g \in DOMAIN nodes : nodes[g].state = "alive" } }

\* The widgets of a scene.
AliveWidgets(nodes) == { h \in DOMAIN nodes : nodes[h].state = "alive" }

\* The operation the command stack applied last.
LastOp == IF history = << >> THEN "none" ELSE history[Len(history)].op

\* What the stack records of an operation: the operation, and the
\* selection, the UI and the command just before it.
Applied(op) == [op |-> op, selection |-> selection, ui |-> ui, command |-> command]

\* The user changes the selection between two operations of the stack.
ChangeSelection ==
    /\ pc = "editor"
    /\ ~fatal
    /\ LastOp # "finalize"
    /\ \E s \in UserSelections(ui) : s # selection /\ selection' = s
    /\ UNCHANGED <<renderer_vars, fatal, ui, clipboard, command, history>>

----------------------------------------------------------------------------
(* PasteWidgetCommand                                                      *)

\* PasteWidgetCommandState
NonExecuted == [tag |-> "NonExecuted"]

Undefined == [tag |-> "Undefined"]

Reverted(subgraphs, kept) == [tag |-> "Reverted", subgraphs |-> subgraphs, selection |-> kept]

Executed(root_nodes, kept) == [tag |-> "Executed", paste_result |-> [root_nodes |-> root_nodes], last_selection |-> kept]

\* PasteWidgetCommand::new
NewPasteWidgetCommand(parent) == [kind |-> "paste", parent |-> parent, state |-> NonExecuted]

\* The tail both arms of execute share: the roots are linked to the parent
\* of the command, the selection is swapped, the state becomes Executed.
ExecuteArm(pasted, parent, swapped) ==
    [ui |-> LinkAll(pasted.nodes, pasted.root_nodes, parent),
     selection |-> swapped.context,
     state |-> Executed(pasted.root_nodes, swapped.kept),
     fatal |-> FALSE]

\* PasteWidgetCommand::execute, on the state mem::replace took out of
\* self.state, which holds Undefined from then on.
ExecuteFrom(state, parent, nodes, content, current) ==
    CASE state.tag = "NonExecuted" ->
             ExecuteArm(ClipboardPaste(nodes, content, << >>), parent,
                        SwapSelection(current, SelectionUi(ClipboardPaste(nodes, content, << >>).root_nodes)))
      [] state.tag = "Reverted" ->
             ExecuteArm(PutAll(nodes, state.subgraphs, << >>), parent,
                        SwapSelection(current, state.selection))
      [] OTHER ->
             [ui |-> nodes, selection |-> current, state |-> Undefined, fatal |-> TRUE]

\* A revert whose last assignment is missing: self.state keeps the
\* Undefined that mem::replace put there.
RevertArm_StateNotStored(taken, swapped) ==
    [ui |-> taken.nodes, selection |-> swapped.context, state |-> Undefined]

\* The body of revert: the sub-graphs are taken out of the UI, the selection
\* is swapped, the state becomes Reverted.
RevertArm(taken, swapped) ==
    [ui |-> taken.nodes,
     selection |-> swapped.context,
     state |-> Reverted(taken.subgraphs, swapped.kept)]

\* PasteWidgetCommand::revert, on the state mem::replace took out.
RevertFrom(state, nodes, current) ==
    IF state.tag = "Executed"
    THEN RevertArm(TakeAll(nodes, state.paste_result.root_nodes, << >>),
                   SwapSelection(current, state.last_selection))
    ELSE [ui |-> nodes, selection |-> current, state |-> Undefined]

\* PasteWidgetCommand::finalize, on the state mem::replace took out.
FinalizeFrom(state, nodes) ==
    IF state.tag = "Reverted" THEN ForgetAll(nodes, state.subgraphs) ELSE nodes

\* The stack executes the command: when it is pushed, and on every redo.
PasteExecute ==
    /\ pc = "editor"
    /\ ~fatal
    /\ command.kind = "paste"
    /\ Len(history) < MaxCommandOps
    /\ LastOp \in {"none", "revert"}
    /\ \E r \in {ExecuteFrom(command.state, command.parent, ui, clipboard, selection)} :
           /\ ui' = r.ui
           /\ selection' = r.selection
           /\ command' = [command EXCEPT !.state = r.state]
           /\ fatal' = r.fatal
    /\ history' = Append(history, Applied("execute"))
    /\ UNCHANGED <<renderer_vars, clipboard>>

\* The stack reverts the command: on undo.
PasteRevert ==
    /\ pc = "editor"
    /\ ~fatal
    /\ command.kind = "paste"
    /\ Len(history) < MaxCommandOps
    /\ LastOp = "execute"
    /\ \E r \in {RevertFrom(command.state, ui, selection)} :
           /\ ui' = r.ui
           /\ selection' = r.selection
           /\ command' = [command EXCEPT !.state = r.state]
    /\ history' = Append(history, Applied("revert"))
    /\ UNCHANGED <<renderer_vars, fatal, clipboard>>

\* The stack drops the command, executed or reverted.
PasteFinalize ==
    /\ pc = "editor"
    /\ ~fatal
    /\ command.kind = "paste"
    /\ LastOp \in {"execute", "revert"}
    /\ ui' = FinalizeFrom(command.state, ui)
    /\ command' = [command EXCEPT !.state = Undefined]
    /\ history' = Append(history, Applied("finalize"))
    /\ UNCHANGED <<renderer_vars, fatal, clipboard, selection>>

InitPaste ==
    /\ NoRenderer
    /\ ui \in UiScenes
    /\ clipboard \in ClipboardContents
    /\ selection \in UserSelections(ui)
    /\ command \in { NewPasteWidgetCommand(p) : p \in AliveWidgets(ui) }
    /\ history = << >>

NextPaste == PasteExecute \/ PasteRevert \/ PasteFinalize \/ ChangeSelection

SpecPaste == InitPaste /\ [][NextPaste]_vars

----------------------------------------------------------------------------
(* Claims about PasteWidgetCommand                                         *)

\* The state the protocol promises after the last operation of the stack.
C19_StateAfterLastOp ==
    /\ LastOp = "none" => command.state.tag = "NonExecuted"
    /\ LastOp = "execute" => command.state.tag = "Executed"
    /\ LastOp = "revert" => command.state.tag = "Reverted"
    /\ LastOp # "finalize" => command.state.tag # "Undefined"
    /\ ~fatal

\* A revert leaves the selection that the execute before it found.
C19_Step ==
    (Len(history') = Len(history) + 1 /\ history'[Len(history')].op = "revert")
        => selection' = history[Len(history)].selection

\* C19: under the undo/redo protocol the state of PasteWidgetCommand is
\* NonExecuted before the first execute, Executed after every execute and
\* Reverted after every revert; it is never Undefined between two
\* operations, execute never reaches its unreachable branch, and after each
\* revert the selection is the one that was current just before the
\* matching execute.
C19_PasteStateFollowsProtocol ==
    [](command.kind = "paste" => C19_StateAfterLastOp) /\ [][C19_Step]_vars

\* A paste of two widgets was executed, reverted, executed again under
\* another selection and reverted again: the selection is the one the second
\* execute found, and the command holds the two sub-graphs.
C19_Witness ==
    /\ command.kind = "paste"
    /\ Len(history) = 4
    /\ LastOp = "revert"
    /\ history[3].op = "execute"
    /\ history[1].selection # history[3].selection
    /\ history[3].selection.kind = "Ui"
    /\ history[4].selection # history[3].selection
    /\ selection = history[3].selection
    /\ command.state.tag = "Reverted"
    /\ Len(command.state.subgraphs) = 2

----------------------------------------------------------------------------
(* LinkWidgetsCommand                                                      *)

\* LinkWidgetsCommand::new
NewLinkWidgetsCommand(child, parent) == [kind |-> "link", child |-> child, parent |-> parent]

\* A link that does not store the old parent in the command.
Link_ParentKept(cmd, nodes) ==
    [command |-> cmd, ui |-> LinkNodes(nodes, cmd.child, cmd.parent)]

\* LinkWidgetsCommand::link: the child goes under the parent the command
\* holds, and the command holds the parent the child had.
Link(cmd, nodes) ==
    [command |-> [cmd EXCEPT !.parent = NodeParent(nodes, cmd.child)],
     ui |-> LinkNodes(nodes, cmd.child, cmd.parent)]

\* LinkWidgetsCommand::execute
LinkExecute ==
    /\ pc = "editor"
    /\ ~fatal
    /\ command.kind = "link"
    /\ Len(history) < MaxCommandOps
    /\ LastOp \in {"none", "revert"}
    /\ \E r \in {Link(command, ui)} :
           /\ ui' = r.ui
           /\ command' = r.command
    /\ history' = Append(history, Applied("execute"))
    /\ UNCHANGED <<renderer_vars, fatal, clipboard, selection>>

\* LinkWidgetsCommand::revert
LinkRevert ==
    /\ pc = "editor"
    /\ ~fatal
    /\ command.kind = "link"
    /\ Len(history) < MaxCommandOps
    /\ LastOp = "execute"
    /\ \E r \in {Link(command, ui)} :
           /\ ui' = r.ui
           /\ command' = r.command
    /\ history' = Append(history, Applied("revert"))
    /\ UNCHANGED <<renderer_vars, fatal, clipboard, selection>>

\* The widgets of the scenes in which widgets are linked, the root apart.
LinkWidgets == 2 .. (MaxWidgets - 1)

\* The widget `steps` parents above a widget, the root being its own parent.
RECURSIVE Ancestor(_, _, _)
Ancestor(parents, handle, steps) ==
    IF steps = 0 \/ handle = UiRoot
    THEN handle
    ELSE Ancestor(parents, parents[handle], steps - 1)

\* The children of a widget, in the order of their handles.
ChildrenOf(parents, handle) ==
    SelectSeq([i \in 1 .. MaxWidgets |-> i],
              LAMBDA c : c \in DOMAIN parents /\ parents[c] = handle)

\* The scene in which every widget has the parent `parents` gives it.
SceneOf(parents) ==
    [h \in WidgetHandles |->
        IF h = UiRoot THEN Widget(NONE, ChildrenOf(parents, h))
        ELSE IF h \in DOMAIN parents THEN Widget(parents[h], ChildrenOf(parents, h))
        ELSE Vacant]

\* Every tree over the root and the widgets of LinkWidgets.
LinkScenes ==
    { SceneOf(parents) :
        parents \in { p \in [LinkWidgets -> {UiRoot} \cup LinkWidgets] :
                        \A h \in LinkWidgets : Ancestor(p, h, MaxWidgets) = UiRoot } }

\* The child is a widget under a parent, the target another widget.
InitLink ==
    /\ NoRenderer
    /\ ui \in LinkScenes
    /\ clipboard = << >>
    /\ selection = SelectionNone
    /\ command \in { NewLinkWidgetsCommand(c, p) :
                        c \in LinkWidgets, p \in ({UiRoot} \cup LinkWidgets) }
    /\ command.child # command.parent
    /\ history = << >>

NextLink == LinkExecute \/ LinkRevert

SpecLink == InitLink /\ [][NextLink]_vars

----------------------------------------------------------------------------
(* Claims about LinkWidgetsCommand                                         *)

\* The parent the child had before the first execute, and the parent the
\* command was constructed with.
ParentBefore == history[1].ui[command.child].parent

TargetParent == history[1].command.parent

\* After an execute the child is under the target and the command holds the
\* old parent; after a revert it is the other way round.
C20_TwoParents ==
    /\ LastOp = "execute" =>
           /\ ui[command.child].parent = TargetParent
           /\ command.parent = ParentBefore
    /\ LastOp = "revert" =>
           /\ ui[command.child].parent = ParentBefore
           /\ command.parent = TargetParent

\* A revert undoes the execute before it, as far as the parent of the child
\* and the parent held by the command go.
C20_Step ==
    (Len(history') = Len(history) + 1 /\ history'[Len(history')].op = "revert")
        => /\ ui'[command.child].parent = history[Len(history)].ui[command.child].parent
           /\ command'.parent = history[Len(history)].command.parent
           /\ command'.child = command.child

\* C20: execute followed by revert of LinkWidgetsCommand is a round trip:
\* after the revert the child is linked to the parent it had before the
\* execute and the command holds the target parent it was constructed
\* with, so that any alternation of execute and revert switches the child
\* between exactly these two parents.
C20_LinkRoundTrip ==
    [](command.kind = "link" => C20_TwoParents) /\ [][C20_Step]_vars

\* Two executes and two reverts of a link to another parent: the child, a
\* widget with a child of its own, is back under its first parent.
C20_Witness ==
    /\ command.kind = "link"
    /\ Len(history) = 4
    /\ LastOp = "revert"
    /\ ParentBefore # TargetParent
    /\ ui[command.child].parent = ParentBefore
    /\ command.parent = TargetParent
    /\ history[2].ui[command.child].parent = TargetParent
    /\ ui[command.child].children # << >>

----------------------------------------------------------------------------
(* AddWidgetCommand                                                        *)

\* Option<SubGraph>
None == [some |-> FALSE]

Some(value) == [some |-> TRUE, value |-> value]

\* UiSelection::single_or_empty
SingleOrEmpty(handle) == SelectionUi(IF handle = NONE THEN << >> ELSE <<handle>>)

\* AddWidgetCommand::new
NewAddWidgetCommand(sub_graph, parent, select_added) ==
    [kind |-> "add",
     sub_graph |-> Some(sub_graph),
     handle |-> NONE,
     parent |-> parent,
     select_added |-> select_added,
     prev_selection |-> SelectionNone]

\* AddWidgetCommand::execute: take() empties self.sub_graph, and unwrap()
\* panics when there was nothing to take.  Otherwise the sub-graph returns
\* to the UI, the selection is replaced if the command selects what it
\* adds, and the widget is linked to the parent of the command, or to the
\* root when that is NONE.
ExecuteAdd(cmd, nodes, current) ==
    IF cmd.sub_graph.some
    THEN LET put == PutSubGraphBack(nodes, cmd.sub_graph.value)
         IN  [command |-> [cmd EXCEPT !.sub_graph = None,
                                      !.handle = put.handle,
                                      !.prev_selection = IF cmd.select_added THEN current ELSE @],
              ui |-> LinkNodes(put.nodes, put.handle,
                               IF cmd.parent = NONE THEN UiRoot ELSE cmd.parent),
              selection |-> IF cmd.select_added THEN SingleOrEmpty(put.handle) ELSE current,
              fatal |-> FALSE]
    ELSE [command |-> cmd, ui |-> nodes, selection |-> current, fatal |-> TRUE]

\* A revert that takes the sub-graph out of the UI and does not keep it.
RevertAddTaken_SubGraphDropped(cmd, taken, current) ==
    [command |-> [cmd EXCEPT !.prev_selection = IF cmd.select_added THEN current ELSE @],
     ui |-> taken.nodes,
     selection |-> IF cmd.select_added THEN cmd.prev_selection ELSE current]

\* AddWidgetCommand::revert, `taken` being what take_reserve_sub_graph
\* yields for self.handle: the command keeps the sub-graph, and the
\* selection is swapped if the command selects what it adds.
RevertAddTaken(cmd, taken, current) ==
    [command |-> [cmd EXCEPT !.sub_graph = Some(taken.sub_graph),
                             !.prev_selection = IF cmd.select_added THEN current ELSE @],
     ui |-> taken.nodes,
     selection |-> IF cmd.select_added THEN cmd.prev_selection ELSE current]

\* AddWidgetCommand::finalize
FinalizeAdd(cmd, nodes) ==
    IF cmd.sub_graph.some
    THEN [command |-> [cmd EXCEPT !.sub_graph = None],
          ui |-> ForgetSubGraph(nodes, cmd.sub_graph.value)]
    ELSE [command |-> cmd, ui |-> nodes]

\* The stack executes the command: when it is pushed, and on every redo.
AddExecute ==
    /\ pc = "editor"
    /\ ~fatal
    /\ command.kind = "add"
    /\ Len(history) < MaxCommandOps
    /\ LastOp \in {"none", "revert"}
    /\ \E r \in {ExecuteAdd(command, ui, selection)} :
           /\ ui' = r.ui
           /\ selection' = r.selection
           /\ command' = r.command
           /\ fatal' = r.fatal
    /\ history' = Append(history, Applied("execute"))
    /\ UNCHANGED <<renderer_vars, clipboard>>

\* The stack reverts the command: on undo.
AddRevert ==
    /\ pc = "editor"
    /\ ~fatal
    /\ command.kind = "add"
    /\ Len(history) < MaxCommandOps
    /\ LastOp = "execute"
    /\ \E r \in {RevertAddTaken(command, TakeReserveSubGraph(ui, command.handle), selection)} :
           /\ ui' = r.ui
           /\ selection' = r.selection
           /\ command' = r.command
    /\ history' = Append(history, Applied("revert"))
    /\ UNCHANGED <<renderer_vars, fatal, clipboard>>

\* The stack drops the command, executed or reverted.
AddFinalize ==
    /\ pc = "editor"
    /\ ~fatal
    /\ command.kind = "add"
    /\ LastOp \in {"execute", "revert"}
    /\ \E r \in {FinalizeAdd(command, ui)} :
           /\ ui' = r.ui
           /\ command' = r.command
    /\ history' = Append(history, Applied("finalize"))
    /\ UNCHANGED <<renderer_vars, fatal, clipboard, selection>>

\* The scenes a command is made in: a widget with `child_count` children
\* was built in the first free slots of the UI and taken out of it again,
\* the command getting the sub-graph.
AddScenes ==
    { TakeReserveSubGraph(
          CloneWidget(AddNode(nodes, FreeHandle(nodes), UiRoot), FreeHandle(nodes), child_count),
          FreeHandle(nodes)) :
        nodes \in UiScenes, child_count \in {0, 1} }

InitAdd ==
    /\ NoRenderer
    /\ clipboard = << >>
    /\ history = << >>
    /\ \E scene \in AddScenes :
           /\ ui = scene.nodes
           /\ command \in { NewAddWidgetCommand(scene.sub_graph, p, s) :
                               p \in {NONE} \cup AliveWidgets(scene.nodes), s \in BOOLEAN }
    /\ selection \in UserSelections(ui)

NextAdd == AddExecute \/ AddRevert \/ AddFinalize \/ ChangeSelection

SpecAdd == InitAdd /\ [][NextAdd]_vars

----------------------------------------------------------------------------
(* DeleteWidgetsSubGraphCommand                                            *)

\* DeleteWidgetsSubGraphCommand::new
NewDeleteWidgetsSubGraphCommand(sub_graph_root) ==
    [kind |-> "delete", sub_graph_root |-> sub_graph_root, sub_graph |-> None, parent |-> NONE]

\* DeleteWidgetsSubGraphCommand::execute: the command notes the parent of
\* the root and keeps the sub-graph it takes out of the UI.
ExecuteDelete(cmd, nodes) ==
    [command |-> [cmd EXCEPT !.parent = nodes[cmd.sub_graph_root].parent,
                             !.sub_graph = Some(TakeReserveSubGraph(nodes, cmd.sub_graph_root).sub_graph)],
     ui |-> TakeReserveSubGraph(nodes, cmd.sub_graph_root).nodes]

\* DeleteWidgetsSubGraphCommand::revert: take() empties self.sub_graph, and
\* unwrap() panics when there was nothing to take.  Otherwise the sub-graph
\* returns to the UI and its root is linked to the parent noted by execute.
RevertDelete(cmd, nodes) ==
    IF cmd.sub_graph.some
    THEN [command |-> [cmd EXCEPT !.sub_graph = None],
          ui |-> LinkNodes(PutSubGraphBack(nodes, cmd.sub_graph.value).nodes,
                           cmd.sub_graph_root, cmd.parent),
          fatal |-> FALSE]
    ELSE [command |-> cmd, ui |-> nodes, fatal |-> TRUE]

\* The stack executes the command: when it is pushed, and on every redo.
DeleteExecute ==
    /\ pc = "editor"
    /\ ~fatal
    /\ command.kind = "delete"
    /\ Len(history) < MaxCommandOps
    /\ LastOp \in {"none", "revert"}
    /\ \E r \in {ExecuteDelete(command, ui)} :
           /\ ui' = r.ui
           /\ command' = r.command
    /\ history' = Append(history, Applied("execute"))
    /\ UNCHANGED <<renderer_vars, fatal, clipboard, selection>>

\* The stack reverts the command: on undo.
DeleteRevert ==
    /\ pc = "editor"
    /\ ~fatal
    /\ command.kind = "delete"
    /\ Len(history) < MaxCommandOps
    /\ LastOp = "execute"
    /\ \E r \in {RevertDelete(command, ui)} :
           /\ ui' = r.ui
           /\ command' = r.command
           /\ fatal' = r.fatal
    /\ history' = Append(history, Applied("revert"))
    /\ UNCHANGED <<renderer_vars, clipboard, selection>>

\* DeleteWidgetsSubGraphCommand::finalize, when the stack drops the command,
\* executed or reverted; its body is that of AddWidgetCommand::finalize.
DeleteFinalize ==
    /\ pc = "editor"
    /\ ~fatal
    /\ command.kind = "delete"
    /\ LastOp \in {"execute", "revert"}
    /\ \E r \in {FinalizeAdd(command, ui)} :
           /\ ui' = r.ui
           /\ command' = r.command
    /\ history' = Append(history, Applied("finalize"))
    /\ UNCHANGED <<renderer_vars, fatal, clipboard, selection>>

\* The root of the sub-graph is a widget under a parent.
InitDelete ==
    /\ NoRenderer
    /\ ui \in LinkScenes
    /\ clipboard = << >>
    /\ selection = SelectionNone
    /\ command \in { NewDeleteWidgetsSubGraphCommand(r) : r \in LinkWidgets }
    /\ history = << >>

NextDelete == DeleteExecute \/ DeleteRevert \/ DeleteFinalize

SpecDelete == InitDelete /\ [][NextDelete]_vars

----------------------------------------------------------------------------
(* Claims about AddWidgetCommand                                           *)

\* The widget the command adds: the root of the sub-graph it holds, or the
\* handle execute got for it.
AddedWidget ==
    IF command.sub_graph.some THEN command.sub_graph.value.root ELSE command.handle

\* Between two operations the command holds the sub-graph exactly when the
\* widget is not in the UI, and nothing has panicked.
C21_HoldsSubGraph ==
    /\ ~fatal
    /\ LastOp \in {"none", "revert"} => command.sub_graph.some
    /\ LastOp = "execute" => ~command.sub_graph.some
    /\ LastOp # "finalize" =>
           (command.sub_graph.some <=> ui[AddedWidget].state # "alive")
    /\ LastOp = "finalize" => ~command.sub_graph.some

\* A revert of a command that selects what it adds leaves the selection the
\* execute before it found; a finalize after a revert frees the slots of
\* the sub-graph, and a finalize after an execute leaves the UI alone.
C21_Step ==
    /\ (Len(history') = Len(history) + 1 /\ history'[Len(history')].op = "revert"
            /\ command.select_added)
           => selection' = history[Len(history)].selection
    /\ (Len(history') = Len(history) + 1 /\ history'[Len(history')].op = "finalize")
           => IF LastOp = "revert"
              THEN /\ \A h \in DOMAIN command.sub_graph.value.nodes : ui'[h].state = "free"
                   /\ \A h \in DOMAIN ui \ DOMAIN command.sub_graph.value.nodes : ui'[h] = ui[h]
                   /\ ui' # ui
              ELSE ui' = ui

\* C21: under the undo/redo protocol AddWidgetCommand holds its sub-graph
\* exactly when the widget is not in the UI: sub_graph is Some before the
\* first execute and after each revert and None after each execute, so
\* that execute never unwraps None; finalize forgets the sub-graph only
\* when the command ends reverted; and with select_added set each revert
\* restores the selection that was current before the matching execute.
C21_SubGraphHeldWhileOutOfUi ==
    [](command.kind = "add" => C21_HoldsSubGraph) /\ [][C21_Step]_vars

\* A widget with a child was added under a given parent, selected, removed,
\* added again under another selection and removed again; the selection
\* was the one the second execute found, and the finalize that followed
\* freed the two slots.
C21_Witness ==
    /\ command.kind = "add"
    /\ command.select_added
    /\ command.parent # NONE
    /\ Len(history) = 5
    /\ LastOp = "finalize"
    /\ history[4].op = "revert"
    /\ history[1].selection # history[3].selection
    /\ history[3].selection.kind = "Ui"
    /\ history[4].selection = SingleOrEmpty(command.handle)
    /\ history[5].selection = history[3].selection
    /\ history[4].ui[command.handle].state = "alive"
    /\ history[4].ui[command.handle].children # << >>
    /\ Cardinality({ h \in DOMAIN ui : ui[h] # history[5].ui[h] }) = 2

====
